---- MODULE Spec2Model ----
(***************************************************************************)
(* The tree builder (createNodeTree, README.md) and the walker (walk.js)   *)
(* of substance/mini.  A CST is a tree of records: a terminal carries a    *)
(* `symbol`, a context carries `type`, `children`, a `start` token and,    *)
(* when the rule was completed, a `stop` token.  A JavaScript property     *)
(* that is absent (undefined) is a field the record does not have.         *)
(***************************************************************************)
EXTENDS Integers, Sequences, FiniteSets, TLC

\* ------------------------------------------------------------ bounds
\* Longest raw argument sequence (argument nodes and commas) of a call.
MaxArgs == 3
\* Nesting depth of the generated expressions.
MaxDepth == 2
\* Number of createNodeTree invocations in one behaviour.
MaxBuilds == 2

\* ------------------------------------------------------------ JavaScript values
Has(rec, f) == f \in DOMAIN rec

\* A value that is a number or undefined is a record: the integer n of up
\* to 9 digits is Num(n); any other finite number but -0 is Dec(sign, ds, e),
\* sign * d1d2..dn * 10^e for its decimal digits ds = d1 .. dn, the last
\* one not 0.
Num(n) == [num |-> n]
Dec(sign, ds, e) == [sign |-> sign, digits |-> ds, exp |-> e]
NegZero == [negzero |-> TRUE]
Infinity(sign) == [inf |-> sign]
NaN == [nan |-> TRUE]
Undefined == [undefined |-> TRUE]

\* isNumber(x): typeof x === 'number', which NaN and the negative numbers
\* satisfy and undefined does not.
isNumber(x) == ~Has(x, "undefined")

\* A read of a token's offset: the CST holds the offset as an integer;
\* undefined when the token does not have it.
Get(rec, f) == IF Has(rec, f) THEN Num(rec[f]) ELSE Undefined

\* An array slot or object property that holds nothing (undefined).
Absent == [absent |-> TRUE]
IsAbsent(x) == Has(x, "absent")

\* arr[i] with a JavaScript (zero-based) index.
At(arr, i) == IF i + 1 \in DOMAIN arr THEN arr[i + 1] ELSE Absent

\* obj.f where f holds an object.
Prop(obj, f) == IF Has(obj, f) THEN obj[f] ELSE Absent

RECURSIVE Concat(_)
Concat(seqs) == IF seqs = <<>> THEN <<>> ELSE Head(seqs) \o Concat(Tail(seqs))

\* ------------------------------------------------------------ text
\* A text is the sequence of its UTF-16 code units.  Utf16 gives the text
\* of a sequence of printable ASCII characters, those from U+0020 and those
\* from U+0061.
AsciiLow ==
  <<" ", "!", "\"", "#", "$", "%", "&", "'", "(", ")", "*", "+", ",", "-", ".", "/",
    "0", "1", "2", "3", "4", "5", "6", "7", "8", "9", ":", ";", "<", "=", ">", "?",
    "@", "A", "B", "C", "D", "E", "F", "G", "H", "I", "J", "K", "L", "M", "N", "O",
    "P", "Q", "R", "S", "T", "U", "V", "W", "X", "Y", "Z", "[", "\\", "]", "^", "_">>
AsciiHigh ==
  <<"a", "b", "c", "d", "e", "f", "g", "h", "i", "j", "k", "l", "m", "n", "o",
    "p", "q", "r", "s", "t", "u", "v", "w", "x", "y", "z", "{", "|", "}", "~">>
CodeUnit(c) ==
  IF \E i \in DOMAIN AsciiLow : AsciiLow[i] = c
  THEN 31 + CHOOSE i \in DOMAIN AsciiLow : AsciiLow[i] = c
  ELSE 96 + CHOOSE i \in DOMAIN AsciiHigh : AsciiHigh[i] = c
Utf16(chars) == [i \in DOMAIN chars |-> CodeUnit(chars[i])]

\* ------------------------------------------------------------ the CST
\* ParserRuleContext.getText: the text of a terminal, the children's
\* texts joined for a context.
RECURSIVE getText(_)
getText(n) ==
  IF Has(n, "symbol") THEN n.symbol.text
  ELSE IF Has(n, "children")
       THEN Concat([i \in DOMAIN n.children |-> getText(n.children[i])])
       ELSE <<>>

\* switch (ast.type): a terminal has no type.
TypeOf(n) == IF Has(n, "type") THEN n.type ELSE "undefined"

Tok(off, chars) ==
  [start |-> off, stop |-> off + Len(chars) - 1, text |-> Utf16(chars)]
Term(off, chars) == [symbol |-> Tok(off, chars)]

HasTok(n) == Has(n, "symbol") \/ Has(n, "start")
FirstTok(n) == IF Has(n, "symbol") THEN n.symbol ELSE n.start
LastTok(n) ==
  IF Has(n, "symbol") THEN n.symbol
  ELSE IF Has(n, "stop") THEN n.stop ELSE n.start

\* The offset after the last character of n.
EndOf(n, off) ==
  IF HasTok(n) /\ Has(LastTok(n), "stop") THEN LastTok(n).stop + 1 ELSE off

\* A completed rule context over its children: start and stop tokens are
\* the first and last tokens the rule matched (none when it matched none).
Ctx(type, children) ==
  LET toks == SelectSeq(children, HasTok) IN
  IF toks = <<>> THEN [type |-> type, children |-> children]
  ELSE [type |-> type, children |-> children,
        start |-> FirstTok(toks[1]),
        stop |-> LastTok(toks[Len(toks)])]

\* The same context left incomplete by the parser: no stop token.
Partial(ctx) == [f \in DOMAIN ctx \ {"stop"} |-> ctx[f]]

\* ------------------------------------------------------------ Node model
\* One constructor per kind: field storage only.  A call holds its args
\* and namedArgs as ordered sequences, empty when the builder passes none.
Definition(id, start, end, name, expr) ==
  [type |-> "definition", id |-> id, start |-> start, end |-> end,
   name |-> name, expr |-> expr]
NumberNode(id, start, end, value) ==
  [type |-> "number", id |-> id, start |-> start, end |-> end, value |-> value]
StringNode(id, start, end, value) ==
  [type |-> "string", id |-> id, start |-> start, end |-> end, value |-> value]
BooleanNode(id, start, end, value) ==
  [type |-> "boolean", id |-> id, start |-> start, end |-> end, value |-> value]
ArrayNode(id, start, end, vals) ==
  [type |-> "array", id |-> id, start |-> start, end |-> end, vals |-> vals]
ObjectNode(id, start, end, entries) ==
  [type |-> "object", id |-> id, start |-> start, end |-> end, entries |-> entries]
Var(id, start, end, name) ==
  [type |-> "var", id |-> id, start |-> start, end |-> end, name |-> name]
FunctionCall(id, start, end, name, args, namedArgs) ==
  [type |-> "call", id |-> id, start |-> start, end |-> end,
   name |-> name, args |-> args, namedArgs |-> namedArgs]
NamedArgument(id, start, end, name, rhs) ==
  [type |-> "named-argument", id |-> id, start |-> start, end |-> end,
   name |-> name, rhs |-> rhs]
PipeOp(id, start, end, left, right) ==
  [type |-> "pipe", id |-> id, start |-> start, end |-> end,
   left |-> left, right |-> right]
ErrorNode(id, start, end, message) ==
  [type |-> "error", id |-> id, start |-> start, end |-> end, message |-> message]
EmptyArgument(id, start, end) ==
  [type |-> "empty-arg", id |-> id, start |-> start, end |-> end]

\* ------------------------------------------------------------ Token
\* x + 1 for an offset x: NaN when x is undefined or NaN.
Plus1(x) == IF Has(x, "num") THEN Num(x.num + 1) ELSE NaN

\* What `new Token(type, symbol)` throws ("none" when it returns).  The
\* type is a string literal at every call site, so isString(type) holds.
TokenThrows(symbol) ==
  IF IsAbsent(symbol) THEN "TypeError"
  ELSE IF ~isNumber(Get(symbol, "start")) THEN "IllegalArgument"
  ELSE IF ~isNumber(Get(symbol, "stop")) THEN "IllegalArgument"
  ELSE "none"

\* The token a successful construction yields; end is exclusive.
Token(type, symbol) ==
  IF Has(symbol, "text")
  THEN [type |-> type, start |-> Get(symbol, "start"),
        end |-> Plus1(Get(symbol, "stop")), text |-> symbol.text]
  ELSE [type |-> type, start |-> Get(symbol, "start"),
        end |-> Plus1(Get(symbol, "stop"))]


\* ------------------------------------------------------------ build state
InitState == [nodeId |-> 0, nodes |-> <<>>, inputs |-> <<>>, tokens |-> <<>>,
              thrown |-> "none"]

Throw(state, what) ==
  IF state.thrown = "none" THEN [state EXCEPT !.thrown = what] ELSE state

\* A value a function "returns" after it has thrown: never looked at.
NoNode == [type |-> "none"]

\* state.tokens.push(new Token(type, symbol))
pushToken(state, type, symbol) ==
  IF state.thrown # "none" THEN state
  ELSE IF TokenThrows(symbol) # "none" THEN Throw(state, TokenThrows(symbol))
  ELSE [state EXCEPT !.tokens = Append(@, Token(type, symbol))]

\* state.nodeId++ : the value read, and the state after it.
takeId(state) == [state EXCEPT !.nodeId = @ + 1]

\* state.nodes.push(node)
pushNode(state, node) ==
  IF state.thrown # "none" THEN state
  ELSE [state EXCEPT !.nodes = Append(@, node)]

\* state.inputs.push(node)
pushInput(state, node) ==
  IF state.thrown # "none" THEN state
  ELSE [state EXCEPT !.inputs = Append(@, node)]

\* _getStartStop with the stop offset taken as it is (inclusive).
_getStartStopInclusive(n) ==
  IF Has(n, "start")
  THEN IF Has(n, "stop")
       THEN <<Get(n.start, "start"), Get(n.stop, "stop")>>
       ELSE <<Get(n.start, "start"), Get(n.start, "stop")>>
  ELSE IF Has(n, "symbol")
       THEN <<Get(n.symbol, "start"), Get(n.symbol, "stop")>>
       ELSE <<Undefined, Undefined>>

\* _getStartStop(n): <<start, end>>, end exclusive.
_getStartStop(n) ==
  IF Has(n, "start")
  THEN IF Has(n, "stop")
       THEN <<Get(n.start, "start"), Plus1(Get(n.stop, "stop"))>>
       ELSE <<Get(n.start, "start"), Plus1(Get(n.start, "stop"))>>
  ELSE IF Has(n, "symbol")
       THEN <<Get(n.symbol, "start"), Plus1(Get(n.symbol, "stop"))>>
       ELSE <<Undefined, Undefined>>

\* Number(text), the conversion of a string to a number value: the white
\* space around the text is dropped; the empty text is 0; a decimal literal
\* may have a sign, a fraction and an exponent; 0x, 0o and 0b literals have
\* no sign; every other text is NaN.  The value of a literal is the double
\* nearest to it (ties to the even significand); a double is written by
\* the shortest decimal digits that convert back to it.

\* chars from its first element that is not in set, and to its last one.
DropLeft(chars, set) ==
  IF \A i \in DOMAIN chars : chars[i] \in set THEN <<>>
  ELSE SubSeq(chars,
              CHOOSE i \in DOMAIN chars :
                chars[i] \notin set /\ \A j \in 1 .. (i - 1) : chars[j] \in set,
              Len(chars))
DropRight(chars, set) ==
  IF \A i \in DOMAIN chars : chars[i] \in set THEN <<>>
  ELSE SubSeq(chars, 1,
              CHOOSE i \in DOMAIN chars :
                chars[i] \notin set /\ \A j \in (i + 1) .. Len(chars) : chars[j] \in set)

\* A natural number of any size: its digits in base Base, the least
\* significant first, the last one not 0; 0 is <<>>.
Base == 10000000
One == <<1>>

Canon(a) == DropRight(a, {0})
LimbAt(a, i) == IF i >= 1 /\ i <= Len(a) THEN a[i] ELSE 0
Larger(x, y) == IF x >= y THEN x ELSE y

\* -1, 0 or 1 as a < b, a = b or a > b.
Cmp(a, b) ==
  IF Len(a) < Len(b) THEN -1
  ELSE IF Len(a) > Len(b) THEN 1
  ELSE IF a = b THEN 0
  ELSE IF \E i \in DOMAIN a : a[i] < b[i] /\ \A j \in (i + 1) .. Len(a) : a[j] = b[j]
  THEN -1
  ELSE 1

\* a + b: s holds the sums of the digits, and a carry enters a place from a
\* sum of Base or more below it with only sums of Base - 1 between.
CarryInto(s, i) ==
  IF \E j \in 1 .. (i - 1) : s[j] >= Base /\ \A m \in (j + 1) .. (i - 1) : s[m] = Base - 1
  THEN 1 ELSE 0
Carried(s) == Canon([i \in 1 .. (Len(s) + 1) |-> (LimbAt(s, i) + CarryInto(s, i)) % Base])
Add(a, b) ==
  Carried(SubSeq([i \in 1 .. Larger(Len(a), Len(b)) |-> LimbAt(a, i) + LimbAt(b, i)],
                 1, Larger(Len(a), Len(b))))

\* a - b for a >= b, likewise with the borrows.
BorrowInto(d, i) ==
  IF \E j \in 1 .. (i - 1) : d[j] < 0 /\ \A m \in (j + 1) .. (i - 1) : d[m] = 0
  THEN 1 ELSE 0
Borrowed(d) == Canon([i \in 1 .. Len(d) |-> (d[i] - BorrowInto(d, i) + Base) % Base])
Sub(a, b) == Borrowed(SubSeq([i \in 1 .. Len(a) |-> a[i] - LimbAt(b, i)], 1, Len(a)))

\* a * k for a divisor k of Base: no carry goes further than one place.
MulBy(a, k) ==
  Canon([i \in 1 .. (Len(a) + 1) |->
           ((LimbAt(a, i) * k) % Base) + ((LimbAt(a, i - 1) * k) \div Base)])

RECURSIVE PowInt(_, _)
PowInt(x, n) == IF n = 0 THEN 1 ELSE x * PowInt(x, n - 1)

\* a * 2^k and a * 10^k.
RECURSIVE MulPow2(_, _)
MulPow2(a, k) ==
  IF a = <<>> THEN <<>>
  ELSE IF k <= 7 THEN MulBy(a, PowInt(2, k))
  ELSE MulPow2(MulPow2(a, k \div 2), k - k \div 2)
RECURSIVE MulPow10(_, _)
MulPow10(a, k) ==
  IF a = <<>> THEN <<>>
  ELSE IF k >= 7 THEN [i \in 1 .. (k \div 7) |-> 0] \o MulPow10(a, k % 7)
  ELSE IF k >= 2 THEN MulPow10(MulBy(a, 100), k - 2)
  ELSE MulBy(a, PowInt(10, k))

\* a, 2a, .. 9a.
Multiples(a) ==
  << a, MulBy(a, 2), Add(MulBy(a, 2), a), MulBy(a, 4), MulBy(a, 5),
     Add(MulBy(a, 5), a), Add(MulBy(a, 5), MulBy(a, 2)), MulBy(a, 8),
     Add(MulBy(a, 8), a) >>

\* The integer of the digit values ds in a base.
RECURSIVE IntOf(_, _)
IntOf(ds, base) ==
  IF ds = <<>> THEN 0 ELSE base * IntOf(SubSeq(ds, 1, Len(ds) - 1), base) + ds[Len(ds)]

\* The number of decimal digits of a > 0, and the number of given decimal
\* digits or bits, the first the most significant.
DecimalLength(a) ==
  7 * (Len(a) - 1) + Cardinality({p \in 0 .. 6 : a[Len(a)] >= PowInt(10, p)})
FromDecimal(ds) ==
  Canon([i \in 1 .. ((Len(ds) + 6) \div 7) |->
           IntOf(SubSeq(ds, Larger(1, Len(ds) - 7 * i + 1), Len(ds) - 7 * (i - 1)), 10)])
OfInt(x) == Canon(<<x % Base, x \div Base>>)
FromBits(bs) ==
  IF Len(bs) <= 27 THEN OfInt(IntOf(bs, 2))
  ELSE Add(MulPow2(OfInt(IntOf(SubSeq(bs, 1, Len(bs) - 27), 2)), 27),
           OfInt(IntOf(SubSeq(bs, Len(bs) - 26, Len(bs)), 2)))

\* A double is significand * 2^exponent.
Precision == 53
MinExponent == -1074
MaxExponent == 971

Zero(sign) == IF sign < 0 THEN NegZero ELSE Num(0)

\* The number sign * 0.d1d2..dn * 10^k of the digits ds = d1 .. dn.
Value(sign, ds, k) ==
  IF k >= Len(ds) /\ k <= 9 THEN Num(sign * IntOf(ds, 10) * PowInt(10, k - Len(ds)))
  ELSE Dec(sign, ds, k - Len(ds))

\* How many times a number is in r, less than 10 times it; mult are the
\* multiples of the number.
DigitIn(r, mult) == Cardinality({d \in 1 .. 9 : Cmp(mult[d], r) <= 0})
Less(r, mult, d) == IF d = 0 THEN r ELSE Sub(r, mult[d])

\* The shortest digits that identify a double among its neighbours.  In
\* units of 10^k, r / s is what is left of the value after the digits acc,
\* mp / s and mm / s are half the distances to the neighbour above and
\* below; `even`, the midpoints convert back to the double too.
High(r, s, mp, even) == IF even THEN Cmp(Add(r, mp), s) >= 0 ELSE Cmp(Add(r, mp), s) > 0
Low(r, mm, even) == IF even THEN Cmp(r, mm) <= 0 ELSE Cmp(r, mm) < 0

\* The digits end where the rest is within the half distances; the last
\* digit is the one nearer to the value.
Closed(g, s, even) ==
  IF ~Low(g.r, g.mm, even) /\ ~High(g.r, s, g.mp, even) THEN g
  ELSE [g EXCEPT !.done = TRUE,
                 !.acc = IF High(g.r, s, g.mp, even)
                            /\ (~Low(g.r, g.mm, even) \/ Cmp(MulBy(g.r, 2), s) >= 0)
                         THEN [@ EXCEPT ![Len(@)] = @ + 1]
                         ELSE @]
\* The next digit: how many times s is in 10 * r.
GenStep(g, s, mult, even) ==
  IF g.done THEN g
  ELSE Closed([g EXCEPT !.r = Less(MulBy(@, 10), mult, DigitIn(MulBy(@, 10), mult)),
                        !.mp = MulBy(@, 10), !.mm = MulBy(@, 10),
                        !.acc = Append(@, DigitIn(MulBy(g.r, 10), mult))],
              s, even)
\* Up to four digits at a time.
RECURSIVE Generate(_, _, _, _)
Generate(g, s, mult, even) ==
  IF g.done THEN g.acc
  ELSE Generate(GenStep(GenStep(GenStep(GenStep(g, s, mult, even), s, mult, even),
                                s, mult, even), s, mult, even),
                s, mult, even)

\* k is moved until 1/10 <= (r + mp) / s < 1.
RECURSIVE Scale(_, _)
Scale(c, even) ==
  IF High(c.r, c.s, c.mp, even)
  THEN Scale([c EXCEPT !.s = MulBy(@, 10), !.k = @ + 1], even)
  ELSE IF High(MulBy(c.r, 10), c.s, MulBy(c.mp, 10), even) THEN c
  ELSE Scale([c EXCEPT !.r = MulBy(@, 10), !.mp = MulBy(@, 10), !.mm = MulBy(@, 10),
                       !.k = @ - 1], even)

\* The units of 10^k0, for the estimate k0 of k.
Estimated(c, k0) ==
  IF k0 >= 0 THEN [r |-> c.r, s |-> MulPow10(c.s, k0), mp |-> c.mp, mm |-> c.mm, k |-> k0]
  ELSE [r |-> MulPow10(c.r, 0 - k0), s |-> c.s, mp |-> MulPow10(c.mp, 0 - k0),
        mm |-> MulPow10(c.mm, 0 - k0), k |-> k0]

\* The double f * 2^e, 0 < f < 2^53, and half the distances to its
\* neighbours, as fractions of s.
Fractions(f, e) ==
  IF e >= 0
  THEN IF f # MulPow2(One, Precision - 1)
       THEN [r |-> MulPow2(f, e + 1), s |-> <<2>>, mp |-> MulPow2(One, e),
             mm |-> MulPow2(One, e)]
       ELSE [r |-> MulPow2(f, e + 2), s |-> <<4>>, mp |-> MulPow2(One, e + 1),
             mm |-> MulPow2(One, e)]
  ELSE IF e = MinExponent \/ f # MulPow2(One, Precision - 1)
       THEN [r |-> MulBy(f, 2), s |-> MulPow2(One, 1 - e), mp |-> One, mm |-> One]
       ELSE [r |-> MulBy(f, 4), s |-> MulPow2(One, 2 - e), mp |-> <<2>>, mm |-> One]

Written(sign, c, even) ==
  Value(sign,
        Generate([r |-> c.r, mp |-> c.mp, mm |-> c.mm, acc |-> <<>>, done |-> FALSE],
                 c.s, Multiples(c.s), even),
        c.k)

\* The double f * 2^e as a number value; k0 estimates the place of its
\* decimal point.
Shortest(sign, f, e, k0) ==
  Written(sign, Scale(Estimated(Fractions(f, e), k0), f[1] % 2 = 0), f[1] % 2 = 0)

\* The double of significand q <= 2^53 and exponent e.
Finite(sign, q, e, k0) ==
  IF q = <<>> THEN Zero(sign)
  ELSE IF q = MulPow2(One, Precision)
  THEN IF e + 1 > MaxExponent THEN Infinity(sign)
       ELSE Shortest(sign, MulPow2(One, Precision - 1), e + 1, k0)
  ELSE IF e > MaxExponent THEN Infinity(sign)
  ELSE Shortest(sign, q, e, k0)

\* The first decimal digits acc of the quotient of a division and what is
\* left, r; mult are the multiples of the divisor.
QuotientDigits == 16
DivStep(st, mult) ==
  IF Len(st.acc) = QuotientDigits THEN st
  ELSE [r |-> Less(MulBy(st.r, 10), mult, DigitIn(MulBy(st.r, 10), mult)),
        acc |-> Append(st.acc, DigitIn(MulBy(st.r, 10), mult))]
RECURSIVE DivLoop(_, _)
DivLoop(st, mult) ==
  IF Len(st.acc) = QuotientDigits THEN st
  ELSE DivLoop(DivStep(DivStep(DivStep(DivStep(st, mult), mult), mult), mult), mult)

\* The quotient to the nearest integer: a tie to the even one.
Rounded(st, d) ==
  IF \/ Cmp(MulBy(st.r, 2), d) > 0
     \/ Cmp(MulBy(st.r, 2), d) = 0 /\ st.acc[Len(st.acc)] % 2 = 1
  THEN Add(FromDecimal(st.acc), One)
  ELSE FromDecimal(st.acc)
\* n / d < 2^53 < 10^16 to the nearest integer: the quotient is the first
\* 16 digits of n / d16, d16 = d * 10^16.
Quotient(n, d16) == Rounded(DivLoop([r |-> n, acc |-> <<>>], Multiples(d16)), d16)

\* The divisor and the exponent of the double nearest to n / d * 2^e: e
\* grows until n / d < 2^53.
RECURSIVE Adjust(_, _, _)
Adjust(n, d, e) ==
  IF Cmp(n, MulPow2(d, Precision)) >= 0 THEN Adjust(n, MulBy(d, 2), e + 1) ELSE <<d, e>>

\* An exponent that is not above the one of the double nearest to n / d:
\* 2^Exponent0 * 2^52 <= n / d, by the numbers of decimal digits.
Exponent0(n, d) ==
  Larger(MinExponent,
         (((DecimalLength(n) - DecimalLength(d) - 1) * 33219) \div 10000) - Precision)
Adjusted(n, d, e0) ==
  IF e0 < 0 THEN <<MulPow2(n, 0 - e0)>> \o Adjust(MulPow2(n, 0 - e0), d, e0)
  ELSE <<n>> \o Adjust(n, MulPow2(d, e0), e0)
\* The double nearest to sign * n / d.
Near(sign, nde, k0) ==
  Finite(sign, Quotient(nde[1], MulPow10(nde[2], QuotientDigits)), nde[3], k0)
Nearest(sign, n, d, k0) == Near(sign, Adjusted(n, d, Exponent0(n, d)), k0)

\* The value of the decimal digits ds, the first not 0, times 10^e10.  Up
\* to 15 digits of a number within the normal doubles are the shortest
\* digits of the double nearest to it (DBL_DIG).
ExactDigits == 15
Scaled(sign, ds, e10) ==
  IF ds = <<>> THEN Zero(sign)
  ELSE IF /\ Len(DropRight(ds, {0})) <= ExactDigits
          /\ Len(ds) + e10 \in -306 .. 308
  THEN Value(sign, DropRight(ds, {0}), Len(ds) + e10)
  ELSE IF Len(ds) + e10 >= 310 THEN Infinity(sign)
  ELSE IF Len(ds) + e10 <= -324 THEN Zero(sign)
  ELSE IF e10 >= 0 THEN Nearest(sign, MulPow10(FromDecimal(ds), e10), One, Len(ds) + e10)
  ELSE Nearest(sign, FromDecimal(ds), MulPow10(One, 0 - e10), Len(ds) + e10)

WhiteSpace ==
  {9, 10, 11, 12, 13, 32, 160, 5760, 8232, 8233, 8239, 8287, 12288, 65279}
    \cup (8192 .. 8202)

\* The value of the digit c in a base up to 16, -1 if it is none.
DigitVal(c) ==
  IF c \in 48 .. 57 THEN c - 48
  ELSE IF c \in 97 .. 102 THEN c - 87
  ELSE IF c \in 65 .. 70 THEN c - 55
  ELSE -1
AllDigits(chars, base) ==
  \A i \in DOMAIN chars : DigitVal(chars[i]) \in 0 .. (base - 1)
DigitVals(chars) == [i \in DOMAIN chars |-> DigitVal(chars[i])]

TrimLeft(chars) == DropLeft(chars, WhiteSpace)
TrimRight(chars) == DropRight(chars, WhiteSpace)

\* The position of the first code unit of chars that is in set, 0 if none.
FirstOf(chars, set) ==
  IF \E i \in DOMAIN chars : chars[i] \in set
  THEN CHOOSE i \in DOMAIN chars :
         chars[i] \in set /\ \A j \in 1 .. (i - 1) : chars[j] \notin set
  ELSE 0

\* An exponent part after the e: an optional sign and digits.  Its
\* magnitude is kept exactly, however many digits it has.
Unsigned(chars) ==
  IF chars # <<>> /\ Head(chars) \in {CodeUnit("+"), CodeUnit("-")} THEN Tail(chars)
  ELSE chars
ExponentOk(chars) == Unsigned(chars) # <<>> /\ AllDigits(Unsigned(chars), 10)
ExponentOf(chars) == FromDecimal(DropLeft(DigitVals(Unsigned(chars)), {0}))

\* The place of the decimal point after the first significant digit's
\* run, up - down: the count of significant digits and a positive exponent
\* raise it, the count of fraction digits and a negative exponent lower it.
\* Past the range of a double, where the value is Infinity or zero
\* whatever the place, 310 and -324 stand for it.
PointAt(up, down) ==
  IF Cmp(up, Add(down, OfInt(310))) >= 0 THEN 310
  ELSE IF Cmp(Add(up, OfInt(324)), down) <= 0 THEN -324
  ELSE IF Cmp(up, down) >= 0 THEN LimbAt(Sub(up, down), 1)
  ELSE 0 - LimbAt(Sub(down, up), 1)

\* An unsigned decimal literal: digits, a fraction, an exponent.
UnsignedDecimal(sign, chars) ==
  LET ePos == FirstOf(chars, {CodeUnit("e"), CodeUnit("E")})
      mant == IF ePos = 0 THEN chars ELSE SubSeq(chars, 1, ePos - 1)
      expo == IF ePos = 0 THEN <<>> ELSE SubSeq(chars, ePos + 1, Len(chars))
      dot == FirstOf(mant, {CodeUnit(".")})
      int == IF dot = 0 THEN mant ELSE SubSeq(mant, 1, dot - 1)
      frac == IF dot = 0 THEN <<>> ELSE SubSeq(mant, dot + 1, Len(mant))
  IN IF chars = Utf16(<<"I", "n", "f", "i", "n", "i", "t", "y">>) THEN Infinity(sign)
     ELSE IF /\ AllDigits(int, 10) /\ AllDigits(frac, 10)
             /\ int \o frac # <<>>
             /\ ePos # 0 => ExponentOk(expo)
     THEN Scaled(sign, DropLeft(DigitVals(int \o frac), {0}),
                 PointAt(IF ePos = 0 \/ Head(expo) = CodeUnit("-")
                         THEN OfInt(Len(DropLeft(DigitVals(int \o frac), {0})))
                         ELSE Add(OfInt(Len(DropLeft(DigitVals(int \o frac), {0}))),
                                  ExponentOf(expo)),
                         IF ePos # 0 /\ Head(expo) = CodeUnit("-")
                         THEN Add(OfInt(Len(frac)), ExponentOf(expo))
                         ELSE OfInt(Len(frac)))
                   - Len(DropLeft(DigitVals(int \o frac), {0})))
     ELSE NaN

\* A literal of another base: 0x, 0o or 0b and at least one digit.
Radix(chars) ==
  IF Len(chars) < 2 \/ chars[1] # CodeUnit("0") THEN 0
  ELSE IF chars[2] \in {CodeUnit("x"), CodeUnit("X")} THEN 16
  ELSE IF chars[2] \in {CodeUnit("o"), CodeUnit("O")} THEN 8
  ELSE IF chars[2] \in {CodeUnit("b"), CodeUnit("B")} THEN 2
  ELSE 0

\* The bits of digit values ds in base 2^w, without the leading zeros.
BitsOf(ds, w) ==
  DropLeft([j \in 1 .. (w * Len(ds)) |->
              (ds[((j - 1) \div w) + 1] \div PowInt(2, w - 1 - ((j - 1) % w))) % 2],
           {0})

\* The value of the bits bs: the first 53 of them, rounded by those after.
InRadix(bs) ==
  IF bs = <<>> THEN Num(0)
  ELSE IF Len(bs) <= Precision
  THEN Finite(1, FromBits(bs), 0, (((Len(bs) - 1) * 30103) \div 100000) + 1)
  ELSE IF Len(bs) - Precision > MaxExponent THEN Infinity(1)
  ELSE Finite(1,
              IF /\ bs[Precision + 1] = 1
                 /\ \/ bs[Precision] = 1
                    \/ \E j \in (Precision + 2) .. Len(bs) : bs[j] = 1
              THEN Add(FromBits(SubSeq(bs, 1, Precision)), One)
              ELSE FromBits(SubSeq(bs, 1, Precision)),
              Len(bs) - Precision, (((Len(bs) - 1) * 30103) \div 100000) + 1)

NumberOfTrimmed(chars) ==
  IF chars = <<>> THEN Num(0)
  ELSE IF Radix(chars) # 0
  THEN IF Len(chars) > 2 /\ AllDigits(SubSeq(chars, 3, Len(chars)), Radix(chars))
       THEN InRadix(BitsOf(DigitVals(SubSeq(chars, 3, Len(chars))),
                         CHOOSE w \in 1 .. 4 : PowInt(2, w) = Radix(chars)))
       ELSE NaN
  ELSE IF Head(chars) = CodeUnit("-") THEN UnsignedDecimal(-1, Tail(chars))
  ELSE IF Head(chars) = CodeUnit("+") THEN UnsignedDecimal(1, Tail(chars))
  ELSE UnsignedDecimal(1, chars)

Number(chars) == NumberOfTrimmed(TrimRight(TrimLeft(chars)))

\* str.slice(1, -1)
Slice1(chars) == SubSeq(chars, 2, Len(chars) - 1)

\* ------------------------------------------------------------ createFromAST
RECURSIVE createFromAST(_, _)

Ret(st, node) == [st |-> st, node |-> node]

\* ast.children[i]; reading it off a missing child list or slot gives a
\* value every later use of which is a TypeError.
Child(ast, i) ==
  IF IsAbsent(ast) \/ ~Has(ast, "children") THEN Absent ELSE At(ast.children, i)

\* exprSequence: items.map(c => createFromAST(state, c)).  Every call site
\* passes an array, so the `!items` guard never applies.
exprPush(acc, r) == [st |-> r.st, list |-> Append(acc.list, r.node)]
RECURSIVE exprLoop(_, _, _)
exprLoop(acc, items, i) ==
  IF i > Len(items) THEN acc
  ELSE exprLoop(exprPush(acc, createFromAST(acc.st, items[i])), items, i + 1)
exprSequence(state, items) == exprLoop([st |-> state, list |-> <<>>], items, 1)

\* One round of argSequence's loop over the raw argument sequence.
\* acc.last is the truthiness of `last`.
argPush(acc, r) == [st |-> r.st, result |-> Append(acc.result, r.node), last |-> TRUE]

argEmpty(acc, n) ==
  [acc EXCEPT !.st = takeId(@),
              !.result = Append(@, EmptyArgument(acc.st.nodeId, _getStartStop(n)[1],
                                                 _getStartStop(n)[2]))]

argStep(acc, n) ==
  IF acc.st.thrown # "none" THEN acc
  ELSE IF getText(n) = Utf16(<<",">>)
  THEN IF ~acc.last THEN [argEmpty(acc, n) EXCEPT !.last = FALSE]
       ELSE [acc EXCEPT !.last = FALSE]
  ELSE argPush(acc, createFromAST(acc.st, n))

RECURSIVE argLoop(_, _, _)
argLoop(acc, args, i) ==
  IF i > Len(args) THEN acc ELSE argLoop(argStep(acc, args[i]), args, i + 1)

\* argSequence without its step after the loop.
argTailDropped(acc, args) == acc

\* After the loop: a trailing comma yields one more EmptyArgument.
argTail(acc, args) ==
  IF acc.st.thrown # "none" \/ acc.last THEN acc
  ELSE IF args = <<>> THEN [acc EXCEPT !.st = Throw(@, "TypeError")]
  ELSE IF getText(args[Len(args)]) = Utf16(<<",">>) THEN argEmpty(acc, args[Len(args)])
  ELSE acc

argResult(acc) == [st |-> acc.st, list |-> acc.result]

argSequence(state, args) ==
  IF state.thrown # "none" \/ IsAbsent(args) THEN [st |-> state, list |-> <<>>]
  ELSE IF ~Has(args, "children")
  THEN [st |-> Throw(state, "TypeError"), list |-> <<>>]
  ELSE argResult(argTail(argLoop([st |-> state, result |-> <<>>, last |-> FALSE],
                                 args.children, 1),
                         args.children))

definitionCase(state, ast, start, end) ==
  LET lhs == Child(ast, 0)
      s1 == IF IsAbsent(lhs) THEN Throw(state, "TypeError")
            ELSE pushToken(state, "output-name", Prop(lhs, "symbol"))
      r == createFromAST(takeId(s1), Child(ast, 2))
  IN Ret(r.st, Definition(s1.nodeId, start, end, getText(lhs), r.node))

\* case 'select_id' with the member's String node given the id that the
\* call then takes too.
select_idCaseSharedId(state, ast, start, end) ==
  LET v == createFromAST(state, Child(ast, 0))
      member == Child(ast, 2)
      s1 == IF IsAbsent(member) THEN Throw(v.st, "TypeError") ELSE v.st
      id == StringNode(s1.nodeId, start, end, getText(member))
      s2 == pushNode(s1, id)
  IN Ret(takeId(s2),
         FunctionCall(s2.nodeId, start, end, "select", <<v.node, id>>, <<>>))

select_idCase(state, ast, start, end) ==
  LET v == createFromAST(state, Child(ast, 0))
      member == Child(ast, 2)
      s1 == IF IsAbsent(member) THEN Throw(v.st, "TypeError") ELSE v.st
      id == StringNode(s1.nodeId, start, end, getText(member))
      s2 == pushNode(takeId(s1), id)
  IN Ret(takeId(s2),
         FunctionCall(s2.nodeId, start, end, "select", <<v.node, id>>, <<>>))

\* select_expr, the unary and the binary operators: a call named `name`
\* over the operand positions `idx` of ast.children.
operatorNode(start, end, name, a) ==
  Ret(takeId(a.st), FunctionCall(a.st.nodeId, start, end, name, a.list, <<>>))

operatorCase(state, ast, start, end, name, idx) ==
  operatorNode(start, end, name,
               exprSequence(state, [k \in DOMAIN idx |-> Child(ast, idx[k])]))

pipeCase(state, ast, start, end) ==
  LET l == createFromAST(takeId(state), Child(ast, 0))
      r == createFromAST(l.st, Child(ast, 2))
  IN Ret(r.st, PipeOp(state.nodeId, start, end, l.node, r.node))

numberCase(state, ast, start, end) ==
  IF ~Has(ast, "children") THEN Ret(Throw(state, "TypeError"), NoNode)
  ELSE IF Len(ast.children) # 1
  THEN Ret(takeId(state), ErrorNode(state.nodeId, start, end, "Invalid number."))
  ELSE LET token == Child(ast.children[1], 0)
           s1 == IF IsAbsent(token) THEN Throw(state, "TypeError")
                 ELSE pushToken(state, "number-literal", Prop(token, "symbol"))
       IN Ret(takeId(s1), NumberNode(s1.nodeId, start, end, Number(getText(token))))

booleanCase(state, ast, start, end) ==
  LET token == Child(ast, 0)
      s1 == IF IsAbsent(token) THEN Throw(state, "TypeError")
            ELSE pushToken(state, "boolean-literal", Prop(token, "symbol"))
  IN Ret(takeId(s1),
         BooleanNode(s1.nodeId, start, end, getText(token) = Utf16(<<"t", "r", "u", "e">>)))

stringCase(state, ast, start, end) ==
  LET ctx == Child(ast, 0)
      s1 == IF IsAbsent(ctx) THEN Throw(state, "TypeError")
            ELSE pushToken(state, "string-literal", Prop(ctx, "symbol"))
  IN Ret(takeId(s1), StringNode(s1.nodeId, start, end, Slice1(getText(ctx))))

arrayNode(start, end, a) ==
  Ret(takeId(a.st), ArrayNode(a.st.nodeId, start, end, a.list))

arrayCase(state, ast, start, end) ==
  LET ctx == Child(ast, 0)
      seq == Child(ctx, 1)
  IN IF IsAbsent(ctx) \/ ~Has(ctx, "children")
     THEN Ret(Throw(state, "TypeError"), NoNode)
     ELSE arrayNode(start, end,
            IF ~IsAbsent(seq) /\ Has(seq, "items")
            THEN exprSequence(state, seq.items)
            ELSE [st |-> state, list |-> <<>>])

\* One round of the loop over ctx.keys in case 'object'.
objectEntry(acc, key, r) ==
  [st |-> r.st, list |-> Append(acc.list, [key |-> key, val |-> r.node])]

\* keys[i] is truthy once the Token was made of it; vals[i] is then read,
\* off an undefined vals with a TypeError.
objectStep(acc, ctx, i) ==
  LET s1 == pushToken(acc.st, "key", At(ctx.keys, i)) IN
  IF s1.thrown # "none" THEN [acc EXCEPT !.st = s1]
  ELSE IF ~Has(ctx, "vals") THEN [acc EXCEPT !.st = Throw(s1, "TypeError")]
  ELSE IF IsAbsent(At(ctx.vals, i)) THEN [acc EXCEPT !.st = s1]
  ELSE objectEntry(acc, At(ctx.keys, i).text, createFromAST(s1, At(ctx.vals, i)))

RECURSIVE objectLoop(_, _, _)
objectLoop(acc, ctx, i) ==
  IF i >= Len(ctx.keys) \/ acc.st.thrown # "none" THEN acc
  ELSE objectLoop(objectStep(acc, ctx, i), ctx, i + 1)

objectNode(start, end, e) ==
  Ret(takeId(e.st), ObjectNode(e.st.nodeId, start, end, e.list))

objectCase(state, ast, start, end) ==
  LET ctx == Child(ast, 0) IN
  IF IsAbsent(ctx) \/ ~Has(ctx, "keys")
  THEN Ret(Throw(state, "TypeError"), NoNode)
  ELSE objectNode(start, end,
                  objectLoop([st |-> state, list |-> <<>>], ctx, 0))

\* The object { start: first.start, stop: last.stop }: an offset the
\* token does not have is undefined in it, too.
Extent(first, last) ==
  [f \in {"literal"} \cup {g \in {"start"} : Has(first, g)}
                     \cup {g \in {"stop"} : Has(last, g)} |->
     IF f = "start" THEN first.start ELSE IF f = "stop" THEN last.stop ELSE TRUE]

\* case 'var' without state.inputs.push(node).
varCaseNoInput(state, ast, start, end) ==
  LET node == Var(state.nodeId, start, end, getText(ast))
      s1 == IF ~Has(ast, "start") \/ ~Has(ast, "stop")
            THEN Throw(takeId(state), "TypeError")
            ELSE pushToken(takeId(state), "input-variable-name",
                           Extent(ast.start, ast.stop))
  IN Ret(s1, node)

varCase(state, ast, start, end) ==
  LET node == Var(state.nodeId, start, end, getText(ast))
      s1 == IF ~Has(ast, "start") \/ ~Has(ast, "stop")
            THEN Throw(takeId(state), "TypeError")
            ELSE pushToken(takeId(state), "input-variable-name",
                           Extent(ast.start, ast.stop))
  IN Ret(pushInput(s1, node), node)

\* case 'call', entered with the call context (unwrapped for '_call');
\* start and end are those of the node createFromAST was called with.
callName(call) == IF Has(call, "name") THEN call.name.text ELSE <<>>

callNode(state, call, start, end, args, namedArgs) ==
  Ret(takeId(state),
      FunctionCall(state.nodeId, start, end, callName(call), args, namedArgs))

callToken(call, start, end, a, na) ==
  callNode(IF Has(call, "name") THEN pushToken(na.st, "function-name", call.name)
           ELSE na.st,
           call, start, end, a.list, na.list)

callNamedArgs(call, start, end, a) ==
  callToken(call, start, end, a,
            IF IsAbsent(Prop(call, "args")) THEN [st |-> a.st, list |-> <<>>]
            ELSE argSequence(a.st, Prop(call.args, "namedArgs")))

callCase(state, call, start, end) ==
  IF IsAbsent(call) THEN Ret(Throw(state, "TypeError"), NoNode)
  ELSE callNamedArgs(call, start, end,
         IF IsAbsent(Prop(call, "args")) THEN [st |-> state, list |-> <<>>]
         ELSE argSequence(state, Prop(call.args, "args")))

\* name.toString() of a terminal is its symbol's text; of a context, the
\* (empty) rule invocation list.
toString(n) == IF Has(n, "symbol") THEN n.symbol.text ELSE Utf16(<<"[", "]">>)

namedArgumentCase(state, ast, start, end) ==
  LET name == Child(ast, 0)
      s1 == IF IsAbsent(name) THEN Throw(state, "TypeError")
            ELSE pushToken(state, "key", Prop(name, "symbol"))
      r == createFromAST(takeId(s1), Child(ast, 2))
  IN Ret(r.st, NamedArgument(s1.nodeId, start, end, toString(name), r.node))

defaultCase(state, ast, start, end) ==
  IF Has(ast, "exception")
  THEN Ret(takeId(state), ErrorNode(state.nodeId, start, end, ast.exception))
  ELSE Ret(takeId(state), ErrorNode(state.nodeId, start, end, "Parser error."))

UnaryOps == {"not", "positive", "negative"}
BinaryOps == {"pow", "multiply", "divide", "remainder", "add", "subtract",
              "less", "less_or_equal", "greater", "greater_or_equal",
              "equal", "not_equal", "and", "or"}
NumberKinds == {"int", "float", "number"}

\* The switch of createFromAST for the kinds that build a node.
buildNode(state, ast, start, end) ==
  LET type == TypeOf(ast) IN
  CASE type = "definition" -> definitionCase(state, ast, start, end)
    [] type = "select_id" -> select_idCase(state, ast, start, end)
    [] type = "select_expr" -> operatorCase(state, ast, start, end, "select", <<0, 2>>)
    [] type \in UnaryOps -> operatorCase(state, ast, start, end, type, <<1>>)
    [] type \in BinaryOps -> operatorCase(state, ast, start, end, type, <<0, 2>>)
    [] type = "pipe" -> pipeCase(state, ast, start, end)
    [] type \in NumberKinds -> numberCase(state, ast, start, end)
    [] type = "boolean" -> booleanCase(state, ast, start, end)
    [] type = "string" -> stringCase(state, ast, start, end)
    [] type = "array" -> arrayCase(state, ast, start, end)
    [] type = "object" -> objectCase(state, ast, start, end)
    [] type = "var" -> varCase(state, ast, start, end)
    [] type = "_call" -> callCase(state, Child(ast, 0), start, end)
    [] type = "call" -> callCase(state, ast, start, end)
    [] type = "named-argument" -> namedArgumentCase(state, ast, start, end)
    [] OTHER -> defaultCase(state, ast, start, end)

\* After the switch: state.nodes.push(node); return node
finish(r) == Ret(pushNode(r.st, r.node), r.node)

createFromAST(state, ast) ==
  IF state.thrown # "none" THEN Ret(state, NoNode)
  ELSE IF IsAbsent(ast) THEN Ret(Throw(state, "TypeError"), NoNode)
  ELSE IF TypeOf(ast) \in {"evaluation", "simple"}
  THEN createFromAST(state, Child(ast, 0))
  ELSE IF TypeOf(ast) = "group"
  THEN createFromAST(state, Child(ast, 1))
  ELSE finish(buildNode(state, ast, _getStartStop(ast)[1], _getStartStop(ast)[2]))

\* createNodeTree(ast): { root, state }, or what it threw.
result(r) ==
  IF r.st.thrown # "none"
  THEN [thrown |-> r.st.thrown]
  ELSE [thrown |-> "none", root |-> r.node,
        state |-> [nodeId |-> r.st.nodeId, nodes |-> r.st.nodes,
                   inputs |-> r.st.inputs, tokens |-> r.st.tokens]]

createNodeTree(ast) == result(createFromAST(InitState, ast))

\* ------------------------------------------------------------ input CSTs
\* What the parser hands to createNodeTree for an expression text laid out
\* from offset `off`, without blanks: every token's offsets are those of its
\* characters.
VarLeaf(off, c) == Ctx("var", <<Term(off, <<c>>)>>)
NumLeaf(off) == Ctx("number", <<Ctx("number_literal", <<Term(off, <<"4", "2">>)>>)>>)

\* The operands used beside a nested operand.
Small(off) == {VarLeaf(off, "x"), NumLeaf(off)}

\* A symbol the lexer left without a stop offset.
OpenTok(off, chars) == [start |-> off, text |-> Utf16(chars)]

Special(off) ==
  { Ctx("string", <<Term(off, <<"\"", "a", "\"">>)>>),
    Ctx("boolean", <<Term(off, <<"t", "r", "u", "e">>)>>),
    Ctx("cell", <<Term(off, <<"B", "3">>)>>),
    Ctx("range", <<Term(off, <<"A", "1", ":", "C", "4">>)>>),
    \* a rule the parser gave up on, with its exception
    [type |-> "expr", children |-> <<Term(off, <<"#">>)>>,
     start |-> Tok(off, <<"#">>), stop |-> Tok(off, <<"#">>),
     exception |-> "NoViableAltException"],
    \* a node of no known kind and no tokens
    [type |-> "unknown", children |-> <<>>],
    \* a call context that matched no token
    [type |-> "call", children |-> <<>>],
    \* a node of no known kind over a symbol without stop offset
    [type |-> "unknown", children |-> <<[symbol |-> OpenTok(off, <<"t">>)]>>,
     start |-> OpenTok(off, <<"t">>), stop |-> OpenTok(off, <<"t">>)],
    \* a number the parser did not complete: no stop token
    Partial(NumLeaf(off)),
    \* a number context of unexpected shape
    Ctx("number", <<Term(off, <<"4">>), Term(off + 1, <<".">>)>>),
    \* a literal over a symbol without stop offset
    [type |-> "boolean", children |-> <<[symbol |-> OpenTok(off, <<"t">>)]>>,
     start |-> OpenTok(off, <<"t">>), stop |-> OpenTok(off, <<"t">>)],
    \* a float literal
    Ctx("float", <<Ctx("number_literal", <<Term(off, <<"1", ".", "5">>)>>)>>),
    \* an empty object literal, its context without vals
    Ctx("object", <<Ctx("object_literal", <<Term(off, <<"{">>), Term(off + 1, <<"}">>)>>)
                      @@ [keys |-> <<>>]>>),
    \* an empty array literal
    Ctx("array", <<Ctx("array_literal", <<Term(off, <<"[">>), Term(off + 1, <<"]">>)>>)>>) }

\* Raw argument sequences: argument nodes and comma terminals, at most n.
RECURSIVE RawArgs(_, _)
RawArgs(off, n) ==
  IF n = 0 THEN {<<>>}
  ELSE {<<>>} \cup
       UNION { { <<x>> \o rest : rest \in RawArgs(EndOf(x, off), n - 1) }
               : x \in Small(off) \cup {Term(off, <<",">>)} }

\* The list context of a raw sequence starting at off (no tokens when empty).
ArgList(type, raw) == Ctx(type, raw)

NamedArg(off, e) == Ctx("named-argument", <<Term(off, <<"k">>), Term(off + 1, <<"=">>), e>>)

EndOfSeq(seq, off) == IF seq = <<>> THEN off ELSE EndOf(seq[Len(seq)], off)

\* f(<raw>) : a named call over a positional argument list.
CallOver(off, raw) ==
  LET pos == ArgList("positional_arguments", raw)
      argsCtx == Ctx("call_arguments", <<pos>>) @@ [args |-> pos]
      close == Term(EndOfSeq(raw, off + 2), <<")">>)
  IN Ctx("call", <<Term(off, <<"f">>), Term(off + 1, <<"(">>), argsCtx, close>>)
       @@ [name |-> Tok(off, <<"f">>), args |-> argsCtx]

\* f(<e>,k=<s>) and f(k=<s>): positional and named arguments.
CallNamed(off, pos, named) ==
  LET posCtx == ArgList("positional_arguments", pos)
      sep == IF pos = <<>> THEN <<>> ELSE <<Term(EndOfSeq(pos, off + 2), <<",">>)>>
      namedCtx == ArgList("named_arguments", named)
      kids == (IF pos = <<>> THEN <<>> ELSE <<posCtx>>) \o sep \o <<namedCtx>>
      argsCtx == Ctx("call_arguments", kids)
                   @@ (IF pos = <<>> THEN [namedArgs |-> namedCtx]
                       ELSE [args |-> posCtx, namedArgs |-> namedCtx])
      close == Term(EndOfSeq(named, off), <<")">>)
  IN Ctx("call", <<Term(off, <<"f">>), Term(off + 1, <<"(">>), argsCtx, close>>)
       @@ [name |-> Tok(off, <<"f">>), args |-> argsCtx]

\* f() : a call without argument context.
CallBare(off) ==
  Ctx("call", <<Term(off, <<"f">>), Term(off + 1, <<"(">>), Term(off + 2, <<")">>)>>)
    @@ [name |-> Tok(off, <<"f">>)]

\* (<raw>) : a call whose name the parser did not find.
CallAnonymous(off, raw) ==
  LET pos == ArgList("positional_arguments", raw)
      argsCtx == Ctx("call_arguments", <<pos>>) @@ [args |-> pos]
      close == Term(EndOfSeq(raw, off + 1), <<")">>)
  IN Ctx("call", <<Term(off, <<"(">>), argsCtx, close>>) @@ [args |-> argsCtx]

\* The calls over the raw sequences of the small operands.
FlatCalls(off) ==
  { CallOver(off, raw) : raw \in RawArgs(off + 2, MaxArgs) }
  \cup { Ctx("_call", <<CallOver(off, <<x>>)>>) : x \in Small(off + 2) }
  \cup { Partial(CallOver(off, <<x>>)) : x \in Small(off + 2) }
  \cup { CallAnonymous(off, <<x>>) : x \in Small(off + 1) }
  \cup { CallBare(off) }

ObjectOver(keys, vals, kids) ==
  Ctx("object", <<Ctx("object_literal", kids) @@ [keys |-> keys, vals |-> vals]>>)

ArrayOver(off, items, kids, n) ==
  Ctx("array", <<Ctx("array_literal",
     <<Term(off, <<"[">>), Ctx("seq", kids) @@ [items |-> items], Term(n, <<"]">>)>>)>>)

\* The forms that nest: each holds the operand e, which the form lays out
\* k characters after off (Ops(off + k) are the operands at that offset).
NestForms(Ops(_), off) ==
  UNION { LET n == EndOf(e, off) IN
          { Ctx("select_id", <<e, Term(n, <<".">>), Term(n + 1, <<"b">>)>>),
            Ctx("add", <<e, Term(n, <<"+">>), VarLeaf(n + 1, "x")>>),
            Ctx("pipe", <<e, Term(n, <<"|">>), NumLeaf(n + 1)>>) }
          : e \in Ops(off) }
  \cup UNION { LET n == EndOf(e, off + 1) IN
          { ArrayOver(off, <<e, VarLeaf(n + 1, "x")>>,
                      <<e, Term(n, <<",">>), VarLeaf(n + 1, "x")>>, n + 2) }
          : e \in Ops(off + 1) }
  \cup UNION { LET n == EndOf(e, off + 2) IN
          { Ctx("definition", <<Term(off, <<"y">>), Term(off + 1, <<"=">>), e>>),
            Ctx("pipe", <<VarLeaf(off, "x"), Term(off + 1, <<"|">>), e>>),
            CallOver(off, <<e, Term(n, <<",">>)>>) }
          : e \in Ops(off + 2) }
  \cup UNION { LET n == EndOf(e, off + 3) IN
          { \* {a:<e>}
            ObjectOver(<<Tok(off + 1, <<"a">>)>>, <<e>>,
               <<Term(off, <<"{">>), Term(off + 1, <<"a">>), Term(off + 2, <<":">>), e,
                 Term(n, <<"}">>)>>) }
          : e \in Ops(off + 3) }
  \cup UNION { { \* f(k=<e>)
                 CallNamed(off, <<>>, <<NamedArg(off + 2, e)>>) }
          : e \in Ops(off + 4) }

\* The forms used around a whole operand only.
OuterForms(Ops(_), off) ==
  UNION { LET n == EndOf(e, off) IN
          { Ctx("evaluation", <<e>>),
            Ctx("simple", <<e>>),
            Ctx("select_expr", <<e, Term(n, <<"[">>), NumLeaf(n + 1), Term(n + 3, <<"]">>)>>) }
          : e \in Ops(off) }
  \cup UNION { LET n == EndOf(e, off + 1) IN
          { Ctx("negative", <<Term(off, <<"-">>), e>>),
            Ctx("group", <<Term(off, <<"(">>), e, Term(n, <<")">>)>>),
            ArrayOver(off, <<e>>, <<e>>, n) }
          : e \in Ops(off + 1) }
  \cup UNION { LET n == EndOf(e, off + 2) IN
          { Ctx("add", <<NumLeaf(off), Term(off + 1, <<"+">>), e>>),
            CallOver(off, <<e>>) }
          : e \in Ops(off + 2) }
  \cup UNION { LET n == EndOf(e, off + 3) IN
          { \* {a:<e>,b:} : the second value is missing
            ObjectOver(<<Tok(off + 1, <<"a">>), Tok(n + 1, <<"b">>)>>, <<e>>,
               <<Term(off, <<"{">>), Term(off + 1, <<"a">>), Term(off + 2, <<":">>), e,
                 Term(n, <<",">>), Term(n + 1, <<"b">>), Term(n + 2, <<":">>),
                 Term(n + 3, <<"}">>)>>),
            \* {a:<e>,b:x}
            ObjectOver(<<Tok(off + 1, <<"a">>), Tok(n + 1, <<"b">>)>>,
               <<e, VarLeaf(n + 3, "x")>>,
               <<Term(off, <<"{">>), Term(off + 1, <<"a">>), Term(off + 2, <<":">>), e,
                 Term(n, <<",">>), Term(n + 1, <<"b">>), Term(n + 2, <<":">>),
                 VarLeaf(n + 3, "x"), Term(n + 4, <<"}">>)>>),
            \* {:<e>} after a blank : the key is missing
            ObjectOver(<<Absent>>, <<e>>,
               <<Term(off + 1, <<"{">>), Term(off + 2, <<":">>), e, Term(n, <<"}">>)>>) }
          : e \in Ops(off + 3) }
  \cup UNION { { \* f(x,k=<e>)
                 CallNamed(off, <<VarLeaf(off + 2, "x")>>, <<NamedArg(off + 4, e)>>) }
          : e \in Ops(off + 6) }

\* Operands nested d deep.
RECURSIVE Operands(_, _)
Operands(d, off) ==
  IF d = 0 THEN Small(off)
  ELSE Small(off) \cup NestForms(LAMBDA o : Operands(d - 1, o), off)

\* Every operand the outermost form may hold.
Top(off) == Operands(MaxDepth - 1, off) \cup Special(off) \cup FlatCalls(off)

\* The CSTs createNodeTree is called with.
Inputs ==
  Top(0) \cup NestForms(Top, 0) \cup OuterForms(Top, 0)
  \cup { \* y=t|  with t left open by the lexer and no right operand
         Ctx("definition",
             <<Term(0, <<"y">>), Term(1, <<"=">>),
               Ctx("pipe",
                   <<[type |-> "unknown", children |-> <<[symbol |-> OpenTok(2, <<"t">>)]>>,
                      start |-> OpenTok(2, <<"t">>), stop |-> OpenTok(2, <<"t">>)],
                     Term(3, <<"|">>),
                     [type |-> "unknown", children |-> <<>>]>>)>>) }

\* The CSTs of a later createNodeTree invocation.
LaterInputs ==
  { VarLeaf(0, "x"),
    CallOver(0, <<VarLeaf(2, "x"), Term(3, <<",">>)>>),
    Ctx("select_id", <<VarLeaf(0, "x"), Term(1, <<".">>), Term(2, <<"b">>)>>) }

VARIABLES ast, expr, prev, builds, pc, stack, visited
vars == <<ast, expr, prev, builds, pc, stack, visited>>

NoExpr == [thrown |-> "unbuilt"]

Init ==
  /\ ast \in Inputs
  /\ expr = NoExpr
  /\ prev = NoExpr
  /\ builds = 0
  /\ pc = "ready"
  /\ stack = <<>>
  /\ visited = <<>>

\* expr = createNodeTree(ast), or the exception it threw.  What an
\* earlier invocation returned is in prev.
CreateNodeTree ==
  /\ pc = "ready"
  /\ expr' = createNodeTree(ast)
  /\ builds' = builds + 1
  /\ pc' = IF expr'.thrown = "none" THEN "built" ELSE "thrown"
  /\ UNCHANGED <<ast, prev, stack, visited>>

\* The caller keeps what it has built and turns to another expression.
NextInput ==
  /\ pc \in {"walked", "thrown"}
  /\ builds < MaxBuilds
  /\ ast' \in LaterInputs
  /\ prev' = expr
  /\ expr' = NoExpr
  /\ pc' = "ready"
  /\ stack' = <<>>
  /\ visited' = <<>>
  /\ UNCHANGED builds

\* ------------------------------------------------------------ walk
Reverse(seq) == [i \in DOMAIN seq |-> seq[Len(seq) + 1 - i]]

\* What the switch of walk pushes for the node it has just visited, in
\* the order of the pushes.
pushed(next) ==
  CASE next.type = "definition" -> <<Prop(next, "expr")>>
    [] next.type \in {"function", "call"} -> Reverse(next.args)
    [] next.type \in {"plus", "minus", "mult", "div", "power"} ->
         <<Prop(next, "right"), Prop(next, "left")>>
    [] next.type = "array" -> Reverse(next.vals)
    [] next.type = "object" ->
         Reverse([i \in DOMAIN next.entries |-> next.entries[i].val])
    [] OTHER -> <<>>

\* let stack = [expr.root]
WalkStart ==
  /\ pc = "built"
  /\ stack' = <<expr.root>>
  /\ visited' = <<>>
  /\ pc' = "walking"
  /\ UNCHANGED <<ast, expr, prev, builds>>

\* One round of the while loop: pop, visit, push the children; the loop
\* ends when the stack is empty.  fn records the id and type it is given.
WalkStep ==
  /\ pc = "walking"
  /\ LET next == stack[Len(stack)]
         rest == SubSeq(stack, 1, Len(stack) - 1)
     IN IF IsAbsent(next)
        THEN /\ visited' = Append(visited, [id |-> Undefined, type |-> "undefined"])
             /\ stack' = rest
             /\ pc' = "thrown"
        ELSE /\ visited' = Append(visited, [id |-> next.id, type |-> next.type])
             /\ stack' = rest \o pushed(next)
             /\ pc' = IF stack' = <<>> THEN "walked" ELSE "walking"
  /\ UNCHANGED <<ast, expr, prev, builds>>

Next == CreateNodeTree \/ NextInput \/ WalkStart \/ WalkStep
Spec == Init /\ [][Next]_vars

\* ------------------------------------------------------------ the built tree
\* The children a node holds, in source order, whatever its kind.
kids(n) ==
  CASE n.type = "definition" -> <<n.expr>>
    [] n.type = "call" -> n.args \o n.namedArgs
    [] n.type = "pipe" -> <<n.left, n.right>>
    [] n.type = "named-argument" -> <<n.rhs>>
    [] n.type = "array" -> n.vals
    [] n.type = "object" -> [i \in DOMAIN n.entries |-> n.entries[i].val]
    [] OTHER -> <<>>

\* Every node of the tree under n, a parent before its children and the
\* children left to right.
RECURSIVE preOrder(_)
preOrder(n) ==
  <<n>> \o Concat([i \in DOMAIN kids(n) |-> preOrder(kids(n)[i])])

Ids(nodes) == [i \in DOMAIN nodes |-> nodes[i].id]
Range(seq) == {seq[i] : i \in DOMAIN seq}
Distinct(seq) == \A i, j \in DOMAIN seq : i # j => seq[i] # seq[j]

Built == expr.thrown = "none"

\* The contexts and terminals of a CST.
RECURSIVE cstNodes(_)
cstNodes(c) ==
  <<c>> \o (IF Has(c, "children")
            THEN Concat([i \in DOMAIN c.children |-> cstNodes(c.children[i])])
            ELSE <<>>)

\* ------------------------------------------------------------ C1
\* C1: walk visits every node of a built tree exactly once, a parent
\* before its children, siblings left to right: once the walk is over, the
\* visits are the tree's nodes in pre-order.
C1_WalkVisitsEveryNode ==
  pc = "walked" => [i \in DOMAIN visited |-> visited[i].id] = Ids(preOrder(expr.root))

\* ------------------------------------------------------------ C2
\* C2: createNodeTree never throws on a malformed or partial CST; the only
\* exceptions that escape are the Token constructor's 'Illegal argument'.
C2_OnlyIllegalArgumentEscapes ==
  expr.thrown \in {"unbuilt", "none", "IllegalArgument"}

\* ------------------------------------------------------------ C3
\* C3: after a build the token list is in source order: the start offsets
\* never decrease along state.tokens.
C3_TokensInSourceOrder ==
  Built => \A i, j \in DOMAIN expr.state.tokens :
             i < j => expr.state.tokens[i].start.num <= expr.state.tokens[j].start.num

\* ------------------------------------------------------------ C4
\* The ids of a finished build: those of the nodes of its tree.
TreeIds(r) == Ids(preOrder(r.root))

\* C4: in every finished build, the current and the one before it, no two
\* nodes share an id and the ids are exactly 0 .. nodeId-1: each node took
\* the counter once, and each build counted from its own 0.
C4_IdsUniquePerBuild ==
  \A r \in {expr, prev} :
    r.thrown = "none" =>
      /\ Distinct(TreeIds(r))
      /\ Range(TreeIds(r)) = 0 .. (r.state.nodeId - 1)

\* Two builds are finished, the earlier one with a synthesized
\* EmptyArgument, the later one with a synthesized String of select_id.
C4_Witness ==
  /\ builds = 2
  /\ prev.thrown = "none"
  /\ expr.thrown = "none"
  /\ \E i \in DOMAIN preOrder(prev.root) : preOrder(prev.root)[i].type = "empty-arg"
  /\ \E i \in DOMAIN preOrder(expr.root) : preOrder(expr.root)[i].type = "string"
  /\ prev.state.nodeId >= 3
  /\ expr.state.nodeId = 3

\* ------------------------------------------------------------ C5
IsComma(n) == Has(n, "symbol") /\ n.symbol.text = Utf16(<<",">>)

\* The raw argument sequence of the call the build was given, when the
\* root of the CST is a call with a positional argument list.
RootIsCall ==
  /\ TypeOf(ast) = "call"
  /\ Has(ast, "args")
  /\ Has(ast.args, "args")
  /\ Has(ast.args.args, "children")
RootRaw == ast.args.args.children

NoAdjacentArguments(raw) ==
  \A i \in DOMAIN raw : i > 1 => IsComma(raw[i]) \/ IsComma(raw[i - 1])

Commas(raw) == Cardinality({i \in DOMAIN raw : IsComma(raw[i])})

\* What the sequencing rule asks for: per raw position, an empty argument
\* over a comma that opens the sequence or follows a comma, the argument
\* itself otherwise; then one more empty argument for a trailing comma.
EmptyOver(c) ==
  [empty |-> TRUE, start |-> Num(c.symbol.start), end |-> Num(c.symbol.stop + 1)]
ArgumentAt(a) ==
  IF HasTok(a)
  THEN [empty |-> FALSE, start |-> Num(FirstTok(a).start),
        end |-> IF Has(LastTok(a), "stop") THEN Num(LastTok(a).stop + 1) ELSE NaN]
  ELSE [empty |-> FALSE, start |-> Undefined, end |-> Undefined]
ExpectedArgs(raw) ==
  Concat([i \in DOMAIN raw |->
            IF IsComma(raw[i])
            THEN IF i = 1 \/ IsComma(raw[i - 1]) THEN <<EmptyOver(raw[i])>> ELSE <<>>
            ELSE <<ArgumentAt(raw[i])>>])
  \o (IF IsComma(raw[Len(raw)]) THEN <<EmptyOver(raw[Len(raw)])>> ELSE <<>>)

ActualArgs(args) ==
  [i \in DOMAIN args |->
     [empty |-> args[i].type = "empty-arg", start |-> args[i].start, end |-> args[i].end]]

\* C5: for a non-empty raw sequence without two adjacent arguments,
\* argSequence yields the expected empty arguments (over the commas' spans)
\* and arguments in order, k+1 entries for k commas.
C5_ArgSequence ==
  (Built /\ RootIsCall /\ RootRaw # <<>> /\ NoAdjacentArguments(RootRaw)) =>
    /\ ActualArgs(expr.root.args) = ExpectedArgs(RootRaw)
    /\ Len(expr.root.args) = Commas(RootRaw) + 1

\* f(x,,) was built: one comma after a comma, and a trailing comma.
C5_Witness ==
  /\ Built /\ RootIsCall
  /\ Len(RootRaw) = 3
  /\ ~IsComma(RootRaw[1]) /\ IsComma(RootRaw[2]) /\ IsComma(RootRaw[3])
  /\ Len(expr.root.args) = 3
  /\ expr.root.args[2].type = "empty-arg" /\ expr.root.args[3].type = "empty-arg"

\* ------------------------------------------------------------ C6
\* The CST node a node is built from: c itself, or the operand that an
\* evaluation, a simple expression or a group stands for.
RECURSIVE Unwrapped(_)
Unwrapped(c) ==
  IF TypeOf(c) \in {"evaluation", "simple"} THEN Unwrapped(Child(c, 0))
  ELSE IF TypeOf(c) = "group" THEN Unwrapped(Child(c, 1))
  ELSE c

\* The CST nodes the arguments of a call come from, per the sequencing
\* rule: the comma itself for an argument left out before or after it, the
\* argument node otherwise.
ArgSources(list) ==
  IF IsAbsent(list) \/ ~Has(list, "children") THEN <<>>
  ELSE IF list.children = <<>> THEN <<>>
  ELSE LET raw == list.children IN
       Concat([i \in DOMAIN raw |->
                 IF IsComma(raw[i])
                 THEN IF i = 1 \/ IsComma(raw[i - 1]) THEN <<raw[i]>> ELSE <<>>
                 ELSE <<raw[i]>>])
       \o (IF IsComma(raw[Len(raw)]) THEN <<raw[Len(raw)]>> ELSE <<>>)

CallSources(call) ==
  IF ~Has(call, "args") THEN <<>>
  ELSE ArgSources(Prop(call.args, "args")) \o ArgSources(Prop(call.args, "namedArgs"))

\* The values of an object literal that come with a key.
EntrySources(ctx) ==
  IF IsAbsent(ctx) \/ ~Has(ctx, "keys") \/ ~Has(ctx, "vals") THEN <<>>
  ELSE Concat([i \in DOMAIN ctx.keys |->
                 IF /\ ~IsAbsent(ctx.keys[i])
                    /\ i <= Len(ctx.vals)
                    /\ ~IsAbsent(ctx.vals[i])
                 THEN <<ctx.vals[i]>> ELSE <<>>])

ItemSources(seq) ==
  IF IsAbsent(seq) \/ ~Has(seq, "items") THEN <<>> ELSE seq.items

\* The CST nodes that the children of the node built from the CST node o
\* come from, in the order of kids.  The member name of a select_id is a
\* String made of the select_id node itself.
Sources(o) ==
  LET type == TypeOf(o) IN
  CASE type = "definition" -> <<Child(o, 2)>>
    [] type = "select_id" -> <<Child(o, 0), o>>
    [] type = "select_expr" \/ type \in BinaryOps -> <<Child(o, 0), Child(o, 2)>>
    [] type \in UnaryOps -> <<Child(o, 1)>>
    [] type = "pipe" -> <<Child(o, 0), Child(o, 2)>>
    [] type = "array" -> ItemSources(Child(Child(o, 0), 1))
    [] type = "object" -> EntrySources(Child(o, 0))
    [] type = "_call" -> CallSources(Child(o, 0))
    [] type = "call" -> CallSources(o)
    [] type = "named-argument" -> <<Child(o, 2)>>
    [] OTHER -> <<>>

\* Every node of the tree under n, built for the CST node c, with the CST
\* node of its own: the one it was made of.  A node whose children are
\* not one per source is not matched (whole is FALSE) and its children are
\* left out.
RECURSIVE Origins(_, _)
Paired(n, o, ks, from) ==
  IF Len(ks) # Len(from)
  THEN <<[node |-> n, of |-> o, whole |-> FALSE]>>
  ELSE <<[node |-> n, of |-> o, whole |-> TRUE]>>
       \o Concat([i \in DOMAIN ks |->
                    IF TypeOf(o) = "select_id" /\ i = 2
                    THEN <<[node |-> ks[i], of |-> o, whole |-> TRUE]>>
                    ELSE Origins(ks[i], from[i])])
Origins(n, c) == Paired(n, Unwrapped(c), kids(n), Sources(Unwrapped(c)))

\* The symbols that tokens are made of when the node of the CST node o
\* is built: the name of a definition, a named argument or a call, the literal
\* of a number, boolean or string, the keys of an object, and for a
\* variable its extent from first to last character.
CallSymbols(call) == IF Has(call, "name") THEN <<call.name>> ELSE <<>>
Symbols(o) ==
  LET type == TypeOf(o) IN
  CASE type \in {"definition", "named-argument", "boolean", "string"} ->
         <<Child(o, 0).symbol>>
    [] type \in NumberKinds ->
         IF Len(o.children) = 1 THEN <<Child(Child(o, 0), 0).symbol>> ELSE <<>>
    [] type = "object" -> Child(o, 0).keys
    [] type = "var" -> <<[start |-> o.start.start, stop |-> o.stop.stop]>>
    [] type = "_call" -> CallSymbols(Child(o, 0))
    [] type = "call" -> CallSymbols(o)
    [] OTHER -> <<>>

\* The span a symbol stands for: from its first character to one past
\* its last.
SpanOf(symbol) == <<Num(symbol.start), Num(symbol.stop + 1)>>

SameBag(a, b) ==
  \A x \in Range(a) \cup Range(b) :
    Cardinality({i \in DOMAIN a : a[i] = x}) = Cardinality({j \in DOMAIN b : b[j] = x})

\* The CST node o has a first token with its start offset and a last
\* token with its stop offset.
HasOffsets(o) ==
  HasTok(o) /\ Has(FirstTok(o), "start") /\ Has(LastTok(o), "stop")

\* The node n has numeric start and end, start <= end, from the first
\* character of its own CST node o to one past the last.
SpansOwn(n, o) ==
  /\ Has(n.start, "num") /\ Has(n.end, "num")
  /\ n.start.num <= n.end.num
  /\ HasOffsets(o)
  /\ n.start.num = FirstTok(o).start
  /\ n.end.num = LastTok(o).stop + 1

\* Every token has numeric start and end, start <= end, and the tokens
\* are, one for one, the spans of the symbols they were made of.
TokensSpanOwn(tokens, pairs) ==
  /\ \A i \in DOMAIN tokens :
       /\ Has(tokens[i].start, "num") /\ Has(tokens[i].end, "num")
       /\ tokens[i].start.num <= tokens[i].end.num
  /\ SameBag([i \in DOMAIN tokens |-> <<tokens[i].start, tokens[i].end>>],
             LET syms == Concat([k \in DOMAIN pairs |-> Symbols(pairs[k].of)])
             IN [j \in DOMAIN syms |-> SpanOf(syms[j])])

\* Every node of the pairs has the span of its own CST node.
AllSpanOwn(pairs) ==
  \A i \in DOMAIN pairs : pairs[i].whole /\ SpansOwn(pairs[i].node, pairs[i].of)

\* C6 as stated: every node and every token of a build has numeric start
\* and end, start <= end, end one past the last character of its own CST
\* node (its own symbol).
C6_EverySpanDefined ==
  Built =>
    /\ AllSpanOwn(Origins(expr.root, ast))
    /\ TokensSpanOwn(expr.state.tokens, Origins(expr.root, ast))

\* The amended rule for the node n built from its own CST node o.
SpansOrEscapes(n, o) ==
  /\ HasOffsets(o) => SpansOwn(n, o)
  /\ ~HasTok(o) => (n.start = Undefined /\ n.end = Undefined)
  /\ (HasTok(o) /\ ~Has(LastTok(o), "stop")) => n.end = NaN

AllSpanOrEscape(pairs) ==
  \A i \in DOMAIN pairs : pairs[i].whole /\ SpansOrEscapes(pairs[i].node, pairs[i].of)

\* C6 amended: the same for every token, and for every node whose own CST
\* node has a first and a last token that carry their offsets; a node whose
\* own CST node has neither a start token nor a symbol has start and end
\* both undefined; a node whose own CST node has a last token without stop
\* offset has the end NaN.
C6_SpansOfNodesWithTokens ==
  Built =>
    /\ AllSpanOrEscape(Origins(expr.root, ast))
    /\ TokensSpanOwn(expr.state.tokens, Origins(expr.root, ast))

\* y=<t|<nothing>> was built, t a symbol without stop offset: a token for
\* y, a definition and a pipe over their characters, an operand over the
\* open symbol and an operand over no token at all.
WitnessPairs(pairs) ==
  /\ Len(pairs) = 4
  /\ \E i \in DOMAIN pairs :
       /\ HasOffsets(pairs[i].of)
       /\ pairs[i].node.type = "pipe"
       /\ pairs[i].node.start = Num(2)
       /\ pairs[i].node.end = Num(4)
  /\ \E i \in DOMAIN pairs :
       /\ ~HasTok(pairs[i].of)
       /\ pairs[i].node.start = Undefined
  /\ \E i \in DOMAIN pairs :
       /\ HasTok(pairs[i].of)
       /\ ~Has(LastTok(pairs[i].of), "stop")
       /\ pairs[i].node.end = NaN
C6_Witness ==
  /\ Built
  /\ Len(expr.state.tokens) = 1
  /\ WitnessPairs(Origins(expr.root, ast))

\* ------------------------------------------------------------ C7
\* C7: a CST node of kind 'cell' is built into a CellRef (B3: row 2, col 1),
\* one of kind 'range' into a RangeRef (A1:C4: 0, 0, 3, 2), never into an
\* ErrorNode.
C7_CellAndRangeBuilt ==
  /\ (Built /\ TypeOf(ast) = "cell") =>
        /\ expr.root.type = "cell"
        /\ Get(expr.root, "row") = Num(2) /\ Get(expr.root, "col") = Num(1)
  /\ (Built /\ TypeOf(ast) = "range") =>
        /\ expr.root.type = "range"
        /\ Get(expr.root, "startRow") = Num(0) /\ Get(expr.root, "startCol") = Num(0)
        /\ Get(expr.root, "endRow") = Num(3) /\ Get(expr.root, "endCol") = Num(2)

\* ------------------------------------------------------------ C8
\* The ids of the Var nodes of the built tree.
VarIds == { preOrder(expr.root)[i].id :
              i \in { k \in DOMAIN preOrder(expr.root) : preOrder(expr.root)[k].type = "var" } }

\* C8: the input list holds exactly the Var nodes of the build, each once,
\* in ascending id, and nothing else; the left-hand identifier of a
\* definition is none of them.
C8_InputsAreTheVars ==
  Built =>
    LET inputs == expr.state.inputs IN
    /\ \A i \in DOMAIN inputs : inputs[i].type = "var"
    /\ \A i, j \in DOMAIN inputs : i < j => inputs[i].id < inputs[j].id
    /\ Range(Ids(inputs)) = VarIds
    /\ \A i \in DOMAIN inputs :
         \E k \in DOMAIN preOrder(expr.root) :
           /\ preOrder(expr.root)[k].id = inputs[i].id
           /\ preOrder(expr.root)[k] = inputs[i]
    /\ TypeOf(ast) = "definition" =>
         \A i \in DOMAIN inputs : inputs[i].start # Num(ast.children[1].symbol.start)

\* A definition with two variables on its right-hand side was built.
C8_Witness ==
  /\ Built
  /\ TypeOf(ast) = "definition"
  /\ Len(expr.state.inputs) = 2
  /\ expr.state.nodeId > 3

\* ------------------------------------------------------------ C9
\* The ids of the descendants of n.
DescendantIds(n) == Range(Ids(Tail(preOrder(n))))

\* C9: a Definition, PipeOp or NamedArgument has a smaller id than each of
\* its descendants, a FunctionCall, Array or Object a larger one; and every
\* node of the node list is appended after all of its descendants, which
\* are therefore in the list before it.
C9_CreationOrder ==
  Built =>
    /\ \A i \in DOMAIN preOrder(expr.root) :
         LET n == preOrder(expr.root)[i] IN
         /\ n.type \in {"definition", "pipe", "named-argument"} =>
              \A d \in DescendantIds(n) : n.id < d
         /\ n.type \in {"call", "array", "object"} =>
              \A d \in DescendantIds(n) : n.id > d
    /\ \A i \in DOMAIN expr.state.nodes :
         \A d \in DescendantIds(expr.state.nodes[i]) :
           \E j \in 1 .. (i - 1) : expr.state.nodes[j].id = d

\* The part of C9 that does not rest on the list being complete: the id
\* order by kind, and the order of the list among the nodes it holds.
C9_OrderAmongListed ==
  Built =>
    /\ \A i \in DOMAIN preOrder(expr.root) :
         LET n == preOrder(expr.root)[i] IN
         /\ n.type \in {"definition", "pipe", "named-argument"} =>
              \A d \in DescendantIds(n) : n.id < d
         /\ n.type \in {"call", "array", "object"} =>
              \A d \in DescendantIds(n) : n.id > d
    /\ \A i, j \in DOMAIN expr.state.nodes :
         expr.state.nodes[j].id \in DescendantIds(expr.state.nodes[i]) => j < i

\* ------------------------------------------------------------ C10
\* C10: the node list holds every node that was given an id, once: its
\* length is the final counter and its ids are exactly 0 .. nodeId-1.
C10_NodeListComplete ==
  Built =>
    /\ Len(expr.state.nodes) = expr.state.nodeId
    /\ Distinct(Ids(expr.state.nodes))
    /\ Range(Ids(expr.state.nodes)) = 0 .. (expr.state.nodeId - 1)

====
